---- MODULE Spec2Model ----
(***************************************************************************)
(* Model of the Moab "hat" driver (src/sw/hat.py): the 9-byte packet codec, *)
(* the power sequence run by the constructor, the bus transceiver, the      *)
(* button/joystick decoding, the servo-offset geometry and the multi-packet *)
(* text protocol.                                                           *)
(*                                                                          *)
(* Conventions.                                                             *)
(*  - Python floats produced by _xy_offsets are carried in thousandths      *)
(*    (0.866 is 866); the joystick values, which the code divides by 100,   *)
(*    are carried in hundredths (-0.56 is -56).                             *)
(*  - np.int8 conversion is the conversion of the NumPy 1.x the driver was  *)
(*    written for: integers wrap modulo 256, floats are truncated toward    *)
(*    zero first.                                                           *)
(*  - A Python str is the sequence of its code points, a bytes object the   *)
(*    sequence of its bytes; a value whose Python type matters is a record  *)
(*    [type, val].                                                          *)
(*  - Every operation is one step.  opLog is what that operation did on the *)
(*    bus and the clock, in order; hw is what construction and teardown did *)
(*    on the bus handle and the digital lines since the start.              *)
(***************************************************************************)
EXTENDS Integers, Sequences, FiniteSets, TLC

\* ---------------------------------------------------------------- bounds
MaxPacketLen == 10      \* longest packet handed directly to trancieve
MaxStrLen == 2          \* all strings up to this length are tried
PortCount == 120        \* number of single port numbers tried, from the default up
NumProcs == 3           \* processes that call kill_doppelganger on one pid file
MaxCallbacks == 2       \* callbacks registered on one decorator

\* ------------------------------------------------------ program constants
SERVO_ENABLE == 1
SERVO_DISABLE == 2
SET_PLATE_ANGLES == 4
SET_SERVOS == 5
TEXT_ICON_SELECT == 6
DISPLAY_BUFFER == 7
ARBITRARY_MESSAGE == 128
MENU == 1
JOYSTICK == 2
JOY_X == 1
JOY_Y == 2
X_TILT_SERVO1 == -500
Y_TILT_SERVO2 == 866
Y_TILT_SERVO3 == -866
FRAME_LEN == 9
PRE_DELAY_MS == 1
SETTLE_DELAY_MS == 50
HOVER_POS == 150
LOWER_POS == 155
DEFAULT_PORT == 5000

\* ----------------------------------------------------------- input sets
AnglePairs == {<<10, -5>>, <<-5, 10>>, <<127, 127>>, <<0, -128>>}
OffsetTriples == {<<0, 0, 0>>, <<2, 0, 0>>, <<0, -3, 0>>, <<0, 2, 2>>, <<-3, 2, -3>>}
ServoTriples == {<<0, 0, 0>>, <<-1, 127, -128>>, <<150, 100, 255>>}
Icons == {0, 7}
Texts == {17}
Alphabet == {104, 105}          \* 'h', 'i'
\* long texts: <<code point, length>>; 233 (e-acute) is two bytes in UTF-8
LongTexts == {<<105, 8>>, <<105, 255>>, <<105, 256>>, <<105, 300>>,
              <<233, 127>>, <<233, 128>>}
Replies ==
    { <<0, 0, 0, 0, 0, 0, 0, 0, 0>>,
      <<1, 200, 0, 0, 0, 0, 0, 0, 0>>,
      <<2, 127, 128, 9, 9, 9, 9, 9, 9>> }
None == <<>>

\* ------------------------------------------------------- value conversions
\* dtype=np.int8 applied to an integer: wrap into [-128, 127]
Int8(v) == ((v + 128) % 256) - 128

\* C-style conversion of a float (in thousandths) to an integer: toward zero
Trunc(milli) == IF milli >= 0 THEN milli \div 1000 ELSE -((-milli) \div 1000)

\* dtype=np.int8 applied to a float (in thousandths)
Int8OfFloat(milli) == Int8(Trunc(milli))

\* variant: the sign boundary is one byte too high
uint8_to_int8_high_boundary(b) == IF b <= 128 THEN b ELSE -256 + b

uint8_to_int8(b) == IF b < 128 THEN b ELSE -256 + b

Zeros(n) == [i \in 1..n |-> 0]

\* ------------------------------------------------------------ packet codec
\* variant: a short packet is converted but not padded
right_pad_array_unpadded(arr, length) ==
    IF Len(arr) < 9
    THEN [ok |-> TRUE, err |-> "", val |-> [i \in 1..Len(arr) |-> Int8(arr[i])]]
    ELSE IF Len(arr) = 9
    THEN [ok |-> TRUE, err |-> "", val |-> arr]
    ELSE [ok |-> FALSE, err |-> "ValueError", val |-> <<>>]

\* variant: the copy into the zeroed array stops one element early
right_pad_array_short_copy(arr, length) ==
    IF Len(arr) < 9
    THEN [ok |-> TRUE, err |-> "",
          val |-> [i \in 1..length |-> IF i < Len(arr) THEN Int8(arr[i]) ELSE 0]]
    ELSE IF Len(arr) = 9
    THEN [ok |-> TRUE, err |-> "", val |-> arr]
    ELSE [ok |-> FALSE, err |-> "ValueError", val |-> <<>>]

\* variant: a long packet is cut to the frame length instead of rejected
right_pad_array_truncating(arr, length) ==
    IF Len(arr) < 9
    THEN [ok |-> TRUE, err |-> "",
          val |-> [i \in 1..length |-> IF i <= Len(arr) THEN Int8(arr[i]) ELSE 0]]
    ELSE [ok |-> TRUE, err |-> "", val |-> SubSeq(arr, 1, 9)]

right_pad_array(arr, length) ==
    LET len_arr == Len(arr) IN
    IF len_arr < 9
    THEN [ok |-> TRUE, err |-> "",
          val |-> [i \in 1..length |-> IF i <= len_arr THEN Int8(arr[i]) ELSE 0]]
    ELSE IF len_arr = 9
    THEN [ok |-> TRUE, err |-> "", val |-> arr]
    ELSE [ok |-> FALSE, err |-> "ValueError", val |-> <<>>]

\* --------------------------------------------------------- offset geometry
\* variant: the third servo's y projection has the second servo's sign
xy_offsets_same_sign(x, y, so) ==
    << 1000 * x + 1000 * so[1] + X_TILT_SERVO1 * so[2] + X_TILT_SERVO1 * so[3],
       1000 * y + Y_TILT_SERVO2 * so[2] + Y_TILT_SERVO2 * so[3] >>

xy_offsets(x, y, so) ==
    << 1000 * x + 1000 * so[1] + X_TILT_SERVO1 * so[2] + X_TILT_SERVO1 * so[3],
       1000 * y + Y_TILT_SERVO2 * so[2] + Y_TILT_SERVO3 * so[3] >>

\* ------------------------------------------------------------------ events
Sleep(ms) == [ev |-> "sleep", ms |-> ms, tx |-> <<>>, rx |-> <<>>, ok |-> TRUE]
Xfer(tx, rx, ok) == [ev |-> "xfer", ms |-> 0, tx |-> tx, rx |-> rx, ok |-> ok]

IsXfer(e) == e.ev = "xfer"
IsDone(e) == e.ev = "xfer" /\ e.ok
Xfers(log) == SelectSeq(log, IsXfer)

VARIABLES
    phase,          \* "new", "ready", "init_failed", "closed"
    servo_offsets,  \* Hat.servo_offsets
    menu_btn,       \* Hat.menu_btn
    joy_btn,        \* Hat.joy_btn
    joy_x,          \* Hat.joy_x, in hundredths
    joy_y,          \* Hat.joy_y, in hundredths
    spi,            \* bus handle: "unopened", "open", "closed"
    lines,          \* digital lines: "unconfigured", "held", "released"
    hw,             \* calls made on the bus handle and the lines, in order
    scope,          \* with-block around the Hat: "none", "in", "exited"
    call,           \* the most recent operation and its arguments
    opLog,          \* sleeps and transfers of the most recent operation
    result,         \* "ok" or the exception the most recent operation raised
    ret,            \* value returned by the most recent operation
    lastReply,      \* reply of the most recent successful transfer, or None
    pid_file,       \* the pid file: [exists, text], text <<>> or <<pid>>
    pc,             \* position of each process in kill_doppelganger
    twin_pid,       \* the pid each process read from the file (0: none)
    signalled,      \* processes that were sent SIGINT
    disable,        \* FileDecorator.disable
    callbacks,      \* CallbackDecorator.callbacks
    decoLog         \* what the most recent decorate call did, in order

vars == <<phase, servo_offsets, menu_btn, joy_btn, joy_x, joy_y, spi, lines,
          hw, scope, call, opLog, result, ret, lastReply,
          pid_file, pc, twin_pid, signalled, disable, callbacks, decoLog>>

hatVars == <<servo_offsets, menu_btn, joy_btn, joy_x, joy_y>>
devVars == <<phase, spi, lines, hw, scope>>
guardVars == <<pid_file, pc, twin_pid, signalled>>
decoVars == <<disable, callbacks, decoLog>>
Procs == 1..NumProcs

Init ==
    /\ phase = "new"
    /\ servo_offsets = <<0, 0, 0>>
    /\ menu_btn = FALSE
    /\ joy_btn = FALSE
    /\ joy_x = 0
    /\ joy_y = 0
    /\ spi = "unopened"
    /\ lines = "unconfigured"
    /\ hw = <<>>
    /\ scope = "none"
    /\ call = [op |-> "none", args |-> <<>>]
    /\ opLog = <<>>
    /\ result = "ok"
    /\ ret = None
    /\ lastReply = None
    /\ pid_file = [exists |-> FALSE, text |-> <<>>]
    /\ pc = [p \in Procs |-> "idle"]
    /\ twin_pid = [p \in Procs |-> 0]
    /\ signalled = {}
    /\ disable = FALSE
    /\ callbacks = <<>>
    /\ decoLog = <<>>

\* ------------------------------------------------- construction, teardown
HwCall(name) == [ev |-> name, pin |-> "", level |-> "", ms |-> 0, ok |-> TRUE]
Output(pin, level) ==
    [ev |-> "gpio.output", pin |-> pin, level |-> level, ms |-> 0, ok |-> TRUE]
HwSleep(ms) == [ev |-> "sleep", pin |-> "", level |-> "", ms |-> ms, ok |-> TRUE]

\* the first n calls of a sequence of calls, the n-th of which raises
RaisesAt(calls, n) == [i \in 1..n |-> IF i = n THEN [calls[i] EXCEPT !.ok = FALSE] ELSE calls[i]]

\* the calls of setupGPIO, in order
setupGPIO ==
    << HwCall("gpio.setwarnings"), HwCall("gpio.setmode"),
       HwCall("gpio.setup_out"), HwCall("gpio.setup_in") >>

\* variant: runtime() returns without the final wait
runtime_no_final_wait ==
    << Output("HAT_EN", "LOW"), HwSleep(20), Output("HAT_EN", "HIGH"),
       Output("HAT_RESET", "LOW"), Output("BOOT_EN", "LOW") >>

\* the calls of runtime(), in order
runtime ==
    << Output("HAT_EN", "LOW"), HwSleep(20), Output("HAT_EN", "HIGH"),
       Output("HAT_RESET", "LOW"), Output("BOOT_EN", "LOW"), HwSleep(250) >>

\* the calls that open the bus, in order
openBus == << HwCall("spi.open"), HwCall("spi.max_speed_hz") >>

IsLineEvent(e) == e.ev \in {"gpio.output", "sleep"}
IsClose(e) == e.ev = "spi.close"

\* variant: a failure of setupGPIO is swallowed and construction goes on
init_hat_swallow(openFailAt, gpioFailAt) ==
    IF openFailAt # 0
    THEN [hw |-> RaisesAt(openBus, openFailAt),
          spi |-> IF openFailAt > 1 THEN "open" ELSE "unopened",
          lines |-> "unconfigured", err |-> "IOError"]
    ELSE IF gpioFailAt # 0
    THEN [hw |-> openBus \o RaisesAt(setupGPIO, gpioFailAt) \o runtime,
          spi |-> "open", lines |-> "held", err |-> ""]
    ELSE [hw |-> openBus \o setupGPIO \o runtime,
          spi |-> "open", lines |-> "held", err |-> ""]

\* the body of Hat.__init__ after the field defaults: openFailAt / gpioFailAt
\* name the call that raises (0: none); both try blocks turn any exception
\* into an IOError that leaves the constructor
init_hat(openFailAt, gpioFailAt) ==
    IF openFailAt # 0
    THEN [hw |-> RaisesAt(openBus, openFailAt),
          spi |-> IF openFailAt > 1 THEN "open" ELSE "unopened",
          lines |-> "unconfigured", err |-> "IOError"]
    ELSE IF gpioFailAt # 0
    THEN [hw |-> openBus \o RaisesAt(setupGPIO, gpioFailAt),
          spi |-> "open",
          lines |-> IF gpioFailAt > 3 THEN "held" ELSE "unconfigured",
          err |-> "IOError"]
    ELSE [hw |-> openBus \o setupGPIO \o runtime,
          spi |-> "open", lines |-> "held", err |-> ""]

Construct(so, openFailAt, gpioFailAt) ==
    LET r == init_hat(openFailAt, gpioFailAt) IN
    /\ phase = "new"
    /\ servo_offsets' = so
    /\ menu_btn' = FALSE
    /\ joy_btn' = FALSE
    /\ joy_x' = 0
    /\ joy_y' = 0
    /\ call' = [op |-> "__init__", args |-> so]
    /\ opLog' = <<>>
    /\ ret' = None
    /\ lastReply' = None
    /\ hw' = r.hw
    /\ spi' = r.spi
    /\ lines' = r.lines
    /\ result' = IF r.err = "" THEN "ok" ELSE r.err
    /\ phase' = IF r.err = "" THEN "ready" ELSE "init_failed"
    /\ UNCHANGED <<scope, guardVars, decoVars>>

\* the body of Hat.close: spi.close() then gpio.cleanup(); closeOk = spi.close()
\* returns.  When it raises, the handle and the lines stay as they were.
close(closeOk) ==
    IF closeOk
    THEN [hw |-> <<HwCall("spi.close"), HwCall("gpio.cleanup")>>,
          spi |-> "closed", lines |-> "released", phase |-> "closed", err |-> ""]
    ELSE [hw |-> RaisesAt(<<HwCall("spi.close")>>, 1),
          spi |-> spi, lines |-> lines, phase |-> phase, err |-> "OSError"]

\* a call of close(), directly or from __exit__
Teardown(op, closeOk) ==
    LET r == close(closeOk) IN
    /\ phase \in {"ready", "closed"}
    /\ Len(SelectSeq(hw, IsClose)) = 0
    /\ call' = [op |-> op, args |-> <<>>]
    /\ opLog' = <<>>
    /\ ret' = None
    /\ UNCHANGED <<hatVars, lastReply, guardVars, decoVars>>
    /\ hw' = hw \o r.hw
    /\ spi' = r.spi
    /\ lines' = r.lines
    /\ phase' = r.phase
    /\ result' = IF r.err = "" THEN "ok" ELSE r.err

\* Hat.close called by the owner of a Hat that is not in a with-block.
\* Teardown is attempted once per object.
Close(closeOk) ==
    /\ scope = "none"
    /\ Teardown("close", closeOk)
    /\ UNCHANGED scope

\* Hat.__enter__: `with Hat(...) as hat:` enters right after construction
Enter ==
    /\ phase = "ready"
    /\ scope = "none"
    /\ call.op = "__init__"
    /\ scope' = "in"
    /\ call' = [op |-> "__enter__", args |-> <<>>]
    /\ opLog' = <<>>
    /\ result' = "ok"
    /\ ret' = None
    /\ UNCHANGED <<hatVars, lastReply, phase, spi, lines, hw, guardVars, decoVars>>

\* Hat.__exit__: the with-block is left, by reaching its end or by an
\* exception of the operation before; it calls close()
Exit(closeOk) ==
    /\ scope = "in"
    /\ Teardown("__exit__", closeOk)
    /\ scope' = "exited"

\* ------------------------------------------------------------- transceiver
\* The Hat fields an operation works on, with what it has done so far.
Self ==
    [menu_btn |-> menu_btn, joy_btn |-> joy_btn, joy_x |-> joy_x, joy_y |-> joy_y,
     log |-> <<>>, err |-> ""]

\* bus = [failAt, rx]: the failAt-th transfer of the operation raises
\* (0: none does), the others answer rx; a handle that is not open raises.
BusOutcomes ==
    {[failAt |-> 0, rx |-> r] : r \in Replies}
    \cup {[failAt |-> k, rx |-> <<0, 0, 0, 0, 0, 0, 0, 0, 0>>] : k \in 1..2}
TransferOk(h, bus) == spi = "open" /\ Len(Xfers(h.log)) + 1 # bus.failAt

\* variant: a button, once seen pressed, stays pressed
save_buttons_sticky(h, hat_to_pi) ==
    [h EXCEPT !.menu_btn = (h.menu_btn \/ hat_to_pi[0 + 1] = MENU),
              !.joy_btn = (h.joy_btn \/ hat_to_pi[0 + 1] = JOYSTICK),
              !.joy_x = uint8_to_int8(hat_to_pi[JOY_X + 1]),
              !.joy_y = uint8_to_int8(hat_to_pi[JOY_Y + 1])]

\* variant: reply byte 0 is read as a bit mask, one bit per button
save_buttons_bitmask(h, hat_to_pi) ==
    [h EXCEPT !.menu_btn = (hat_to_pi[0 + 1] % 2 = 1),
              !.joy_btn = ((hat_to_pi[0 + 1] \div 2) % 2 = 1),
              !.joy_x = uint8_to_int8(hat_to_pi[JOY_X + 1]),
              !.joy_y = uint8_to_int8(hat_to_pi[JOY_Y + 1])]

save_buttons(h, hat_to_pi) ==
    [h EXCEPT !.menu_btn = (hat_to_pi[0 + 1] = MENU),
              !.joy_btn = (hat_to_pi[0 + 1] = JOYSTICK),
              !.joy_x = uint8_to_int8(hat_to_pi[JOY_X + 1]),
              !.joy_y = uint8_to_int8(hat_to_pi[JOY_Y + 1])]

\* variant: a failed transfer is swallowed and the operation goes on
trancieve_swallow(h, packet, bus) ==
    LET p == right_pad_array(packet, FRAME_LEN) IN
    IF ~p.ok THEN [h EXCEPT !.err = p.err]
    ELSE IF ~TransferOk(h, bus)
    THEN [h EXCEPT !.log = @ \o <<Sleep(PRE_DELAY_MS), Xfer(p.val, <<>>, FALSE)>>]
    ELSE save_buttons(
           [h EXCEPT !.log = @ \o <<Sleep(PRE_DELAY_MS), Xfer(p.val, bus.rx, TRUE)>>],
           bus.rx)

trancieve(h, packet, bus) ==
    LET p == right_pad_array(packet, FRAME_LEN) IN
    IF ~p.ok THEN [h EXCEPT !.err = p.err]
    ELSE IF ~TransferOk(h, bus)
    THEN [h EXCEPT !.log = @ \o <<Sleep(PRE_DELAY_MS), Xfer(p.val, <<>>, FALSE)>>,
                   !.err = "OSError"]
    ELSE save_buttons(
           [h EXCEPT !.log = @ \o <<Sleep(PRE_DELAY_MS), Xfer(p.val, bus.rx, TRUE)>>],
           bus.rx)

\* an operation on a constructed Hat ends: its effects become the state
Return(op, args, h, value) ==
    /\ call' = [op |-> op, args |-> args]
    /\ menu_btn' = h.menu_btn
    /\ joy_btn' = h.joy_btn
    /\ joy_x' = h.joy_x
    /\ joy_y' = h.joy_y
    /\ lastReply' = LET done == SelectSeq(h.log, IsDone) IN
                    IF Len(done) = 0 THEN lastReply ELSE done[Len(done)].rx
    /\ opLog' = h.log
    /\ result' = IF h.err = "" THEN "ok" ELSE h.err
    /\ ret' = IF h.err = "" THEN value ELSE None
    /\ UNCHANGED <<devVars, guardVars, decoVars>>

Constructed == phase \in {"ready", "closed"}

\* Hat.trancieve called directly with a packet of any length
Trancieve(packet, bus) ==
    /\ Constructed
    /\ Return("trancieve", packet, trancieve(Self, packet, bus), None)
    /\ UNCHANGED servo_offsets

PollButtons ==
    /\ Constructed
    /\ Return("poll_buttons", <<>>, Self, <<menu_btn, joy_btn, joy_x, joy_y>>)
    /\ UNCHANGED servo_offsets

EnableServos(bus) ==
    /\ Constructed
    /\ Return("enable_servos", <<>>, trancieve(Self, <<SERVO_ENABLE>>, bus), None)
    /\ UNCHANGED servo_offsets

DisableServos(bus) ==
    /\ Constructed
    /\ Return("disable_servos", <<>>, trancieve(Self, <<SERVO_DISABLE>>, bus), None)
    /\ UNCHANGED servo_offsets

\* variant: no settle sleep
Settle_none(h) == h

\* the settle sleep runs only when trancieve returned
Settle(h) == IF h.err = "" THEN [h EXCEPT !.log = Append(@, Sleep(SETTLE_DELAY_MS))] ELSE h

set_angles(h, plate_x_deg, plate_y_deg, bus) ==
    LET plate == xy_offsets(plate_x_deg, plate_y_deg, servo_offsets) IN
    Settle(trancieve(h,
        <<Int8(SET_PLATE_ANGLES), Int8OfFloat(plate[1]), Int8OfFloat(plate[2])>>, bus))

\* variant: the offsets are added to the raw positions
set_servos_with_offsets(h, servo1, servo2, servo3, bus) ==
    Settle(trancieve(h,
        <<Int8(SET_SERVOS), Int8(servo1 + servo_offsets[1]),
          Int8(servo2 + servo_offsets[2]), Int8(servo3 + servo_offsets[3])>>, bus))

set_servos(h, servo1, servo2, servo3, bus) ==
    Settle(trancieve(h,
        <<Int8(SET_SERVOS), Int8(servo1), Int8(servo2), Int8(servo3)>>, bus))

SetAngles(x, y, bus) ==
    /\ Constructed
    /\ Return("set_angles", <<x, y>>, set_angles(Self, x, y, bus), None)
    /\ UNCHANGED servo_offsets

SetServos(a, b, c, bus) ==
    /\ Constructed
    /\ Return("set_servos", <<a, b, c>>, set_servos(Self, a, b, c, bus), None)
    /\ UNCHANGED servo_offsets

\* variant: the three offsets are stored in reverse order
SetServoOffsets_reversed(so) ==
    /\ Constructed
    /\ servo_offsets' = <<so[3], so[2], so[1]>>
    /\ Return("set_servo_offsets", so, Self, None)

SetServoOffsets(so) ==
    /\ Constructed
    /\ servo_offsets' = so
    /\ Return("set_servo_offsets", so, Self, None)

SetIconText(icon_idx, text_idx, bus) ==
    /\ Constructed
    /\ Return("set_icon_text", <<icon_idx, text_idx>>,
              trancieve(Self, <<TEXT_ICON_SELECT, icon_idx, text_idx>>, bus), None)
    /\ UNCHANGED servo_offsets

Hover(bus) ==
    /\ Constructed
    /\ Return("hover", <<>>, set_servos(Self, HOVER_POS, HOVER_POS, HOVER_POS, bus), None)
    /\ UNCHANGED servo_offsets

Lower(bus) ==
    /\ Constructed
    /\ Return("lower", <<>>, set_servos(Self, LOWER_POS, LOWER_POS, LOWER_POS, bus), None)
    /\ UNCHANGED servo_offsets

\* ----------------------------------------------------------- text protocol
Bytes(seq) == [type |-> "bytes", val |-> seq]
List(seq) == [type |-> "list", val |-> seq]

\* Python's + on sequences: defined between two values of the same type
py_add(a, b) ==
    IF a.type = b.type
    THEN [ok |-> TRUE, err |-> "", val |-> [type |-> a.type, val |-> a.val \o b.val]]
    ELSE [ok |-> FALSE, err |-> "TypeError", val |-> a]

\* s[lo:hi] of a bytes object (0-based, hi excluded, clipped to the length)
py_slice(s, lo, hi) ==
    [type |-> s.type,
     val |-> SubSeq(s.val, lo + 1, IF hi < Len(s.val) THEN hi ELSE Len(s.val))]

\* str.upper() on the code points used here: ASCII and Latin-1 letters
upper_char(c) ==
    IF c \in 97..122 \/ c \in 224..246 \/ c \in 248..254 THEN c - 32 ELSE c
str_upper(s) == [i \in 1..Len(s) |-> upper_char(s[i])]

\* bytes(s, "utf-8") for code points below 0x800
utf8_char(c) == IF c < 128 THEN <<c>> ELSE <<192 + (c \div 64), 128 + (c % 64)>>
RECURSIVE utf8(_)
utf8(s) ==
    IF Len(s) = 0 THEN <<>>
    ELSE IF Len(s) = 1 THEN utf8_char(s[1])
    ELSE LET mid == Len(s) \div 2 IN
         utf8(SubSeq(s, 1, mid)) \o utf8(SubSeq(s, mid + 1, Len(s)))

\* variant: the length check is strict
assert_len_strict(s) == Len(s.val) < 256

\* assert len(s) <= 256
assert_len(s) == Len(s.val) <= 256

\* int(np.ceil(n / 8))
CeilDiv8(n) == (n + 7) \div 8

\* the for loop of print_arbitrary_string, from msg_idx on
RECURSIVE send_msgs(_, _, _, _, _)
send_msgs(h, s, msg_idx, num_msgs, bus) ==
    IF msg_idx >= num_msgs THEN h
    ELSE LET msg == py_add(List(<<ARBITRARY_MESSAGE>>),
                           py_slice(s, 8 * msg_idx, 8 * msg_idx + 8)) IN
         IF ~msg.ok THEN [h EXCEPT !.err = msg.err]
         ELSE LET h1 == trancieve(h, msg.val.val, bus) IN
              IF h1.err # "" THEN h1
              ELSE send_msgs(h1, s, msg_idx + 1, num_msgs, bus)

print_arbitrary_string(h, str, bus) ==
    LET s1 == py_add(Bytes(utf8(str_upper(str))), Bytes(<<0>>)).val IN
    IF ~assert_len(s1) THEN [h EXCEPT !.err = "AssertionError"]
    ELSE LET num_msgs == CeilDiv8(Len(s1.val))
             s2 == py_add(s1, Bytes(Zeros(num_msgs * 8 - Len(s1.val)))).val
             h1 == send_msgs(h, s2, 0, num_msgs, bus)
         IN  IF h1.err # "" THEN h1
             ELSE trancieve(h1, <<DISPLAY_BUFFER>>, bus)

PrintArbitraryString(str, bus) ==
    /\ Constructed
    /\ Return("print_arbitrary_string", str, print_arbitrary_string(Self, str, bus), None)
    /\ UNCHANGED servo_offsets

\* ------------------------------------------------------------------ inputs
Packet(n, op) == [i \in 1..n |-> IF i = 1 THEN op ELSE ((i - 1) * 37) % 256]
Packets == {Packet(n, ARBITRARY_MESSAGE) : n \in 0..MaxPacketLen}

Repeat(c, n) == [i \in 1..n |-> c]
Strings ==
    UNION {[1..n -> Alphabet] : n \in 0..MaxStrLen}
    \cup {Repeat(lt[1], lt[2]) : lt \in LongTexts}

\* ----------------------------------------------------------- specification
Next ==
    \/ \E so \in OffsetTriples, o \in 0..2, g \in 0..4 : Construct(so, o, g)
    \/ \E closeOk \in BOOLEAN : Close(closeOk)
    \/ Enter
    \/ \E closeOk \in BOOLEAN : Exit(closeOk)
    \/ \E p \in Packets, bus \in BusOutcomes : Trancieve(p, bus)
    \/ PollButtons
    \/ \E bus \in BusOutcomes : EnableServos(bus)
    \/ \E bus \in BusOutcomes : DisableServos(bus)
    \/ \E a \in AnglePairs, bus \in BusOutcomes : SetAngles(a[1], a[2], bus)
    \/ \E s \in ServoTriples, bus \in BusOutcomes : SetServos(s[1], s[2], s[3], bus)
    \/ \E so \in OffsetTriples : SetServoOffsets(so)
    \/ \E i \in Icons, tx \in Texts, bus \in BusOutcomes : SetIconText(i, tx, bus)
    \/ \E bus \in BusOutcomes : Hover(bus)
    \/ \E bus \in BusOutcomes : Lower(bus)
    \/ \E s \in Strings, bus \in BusOutcomes : PrintArbitraryString(s, bus)

Spec == Init /\ [][Next]_vars

\* The reply decoding over every byte value: a Hat that exchanges frames with
\* a peripheral answering any code in byte 0 and any byte at the joystick
\* positions, and is polled.
AllReplies == {<<b, b, 255 - b, 0, 0, 0, 0, 0, 0>> : b \in 0..255}

NextReplies ==
    \/ Construct(<<0, 0, 0>>, 0, 0)
    \/ \E r \in AllReplies : EnableServos([failAt |-> 0, rx |-> r])
    \/ PollButtons

SpecReplies == Init /\ [][NextReplies]_vars

\* ------------------------------------------- quick-switch brain controller
\* (src/sw/controllers.py)  A port argument is [type, val]: an int carries its
\* number, a tuple its elements.
IntPort(p) == [type |-> "int", val |-> <<p>>]
TuplePort(seq) == [type |-> "tuple", val |-> seq]

Ports ==
    {IntPort(p) : p \in DEFAULT_PORT..(DEFAULT_PORT + PortCount - 1)}
    \cup {TuplePort(<<p, q>>) : p, q \in {DEFAULT_PORT, DEFAULT_PORT + 5}}
    \cup {TuplePort(<<DEFAULT_PORT, DEFAULT_PORT + 1, DEFAULT_PORT + 2>>)}

\* the names assigned in the body of brain_controller_quick_switch, hence
\* local to it from its first statement on
QuickSwitchLocals ==
    {"port1", "port2", "port1_controller", "port2_controller", "pid_controller",
     "prediction_url1", "prediction_url2", "next_action"}

\* reading a name in that body: a local without a value raises, any other
\* name is looked up in the module
LoadName(name, bound) ==
    IF name \notin QuickSwitchLocals THEN "global"
    ELSE IF name \in bound THEN "local"
    ELSE "UnboundLocalError"

\* the factory: port parsing, the two per-port controllers, then
\* `pid_controller = pid_controller(**kwargs)`, whose right-hand side reads
\* the local pid_controller; a returned controller is <<port1, port2>>
brain_controller_quick_switch(port) ==
    LET unpacked == port.type = "tuple" /\ Len(port.val) # 2
        port1 == port.val[1]
        port2 == IF port.type = "tuple" THEN port.val[2] ELSE port.val[1] + 1
        bound == {"port1", "port2", "port1_controller", "port2_controller"}
    IN  IF unpacked THEN [err |-> "ValueError", val |-> None]
        ELSE IF LoadName("pid_controller", bound) = "UnboundLocalError"
        THEN [err |-> "UnboundLocalError", val |-> None]
        ELSE [err |-> "", val |-> <<port1, port2>>]

\* next_action of a per-port controller (_brain_controller): the outcome of
\* its own request is "ok", "not_ok", "ConnectionError" or "error"
brain_next_action(port, ball_detected, outcome) ==
    IF ball_detected /\ outcome = "ConnectionError"
    THEN [err |-> "BrainNotFound", by |-> port, action |-> "none"]
    ELSE [err |-> "", by |-> port,
          action |-> IF ball_detected /\ outcome = "ok" THEN "brain" ELSE "level"]

\* next_action of the quick-switch controller, given the two probe statuses
\* (400 stands for a probe that raised)
quick_switch_next_action(ctl, status_code1, status_code2, ball_detected, outcome) ==
    IF status_code1 = 200 THEN brain_next_action(ctl[1], ball_detected, outcome)
    ELSE IF status_code2 = 200 THEN brain_next_action(ctl[2], ball_detected, outcome)
    ELSE [err |-> "", by |-> 0, action |-> IF ball_detected THEN "pid" ELSE "level"]

BrainControllerQuickSwitch(port) ==
    LET r == brain_controller_quick_switch(port) IN
    /\ call' = [op |-> "brain_controller_quick_switch", args |-> port.val]
    /\ result' = IF r.err = "" THEN "ok" ELSE r.err
    /\ ret' = r.val
    /\ opLog' = <<>>
    /\ UNCHANGED <<hatVars, devVars, lastReply, guardVars, decoVars>>

NextBrain == \E port \in Ports : BrainControllerQuickSwitch(port)

SpecBrain == Init /\ [][NextBrain]_vars

\* ------------------------------------------------- single-instance guard
\* (src/sw/procid.py)  Process p has pid p.  Each process calls
\* kill_doppelganger once on the same pid file; the calls interleave at the
\* system calls.  A process that was sent SIGINT takes no further step of the
\* function: KeyboardInterrupt ends it where it is.
hatState == <<hatVars, devVars, call, opLog, result, ret, lastReply>>
Live(p) == pc[p] \in {"read", "kill", "open_w", "write", "done"}

\* os.getpid() and os.path.isfile(pid_path)
IsFile(p) ==
    /\ pc[p] = "idle"
    /\ pc' = [pc EXCEPT ![p] = IF pid_file.exists THEN "read" ELSE "open_w"]
    /\ UNCHANGED <<pid_file, twin_pid, signalled, hatState, decoVars>>

\* open(pid_path, 'r') and int(f.read()): the text of a file that another
\* process has opened for writing and not yet written is empty, and int('')
\* raises ValueError outside the try block
ReadTwin(p) ==
    /\ pc[p] = "read"
    /\ p \notin signalled
    /\ IF pid_file.text = <<>>
       THEN pc' = [pc EXCEPT ![p] = "ValueError"] /\ UNCHANGED twin_pid
       ELSE /\ pc' = [pc EXCEPT ![p] = "kill"]
            /\ twin_pid' = [twin_pid EXCEPT ![p] = pid_file.text[1]]
    /\ UNCHANGED <<pid_file, signalled, hatState, decoVars>>

\* os.kill(twin_pid, signal.SIGINT); ESRCH and every other exception are
\* printed and the function goes on
Kill(p) ==
    /\ pc[p] = "kill"
    /\ p \notin signalled
    /\ signalled' = IF Live(twin_pid[p]) THEN signalled \cup {twin_pid[p]} ELSE signalled
    /\ pc' = [pc EXCEPT ![p] = "open_w"]
    /\ UNCHANGED <<pid_file, twin_pid, hatState, decoVars>>

\* open(pid_path, 'w'): creates the file or truncates it
OpenWrite(p) ==
    /\ pc[p] = "open_w"
    /\ p \notin signalled
    /\ pid_file' = [exists |-> TRUE, text |-> <<>>]
    /\ pc' = [pc EXCEPT ![p] = "write"]
    /\ UNCHANGED <<twin_pid, signalled, hatState, decoVars>>

\* f.write(str(our_pid)), the file is closed and our_pid returned
WritePid(p) ==
    /\ pc[p] = "write"
    /\ p \notin signalled
    /\ pid_file' = [exists |-> TRUE, text |-> <<p>>]
    /\ pc' = [pc EXCEPT ![p] = "done"]
    /\ UNCHANGED <<twin_pid, signalled, hatState, decoVars>>

\* SIGINT is delivered: KeyboardInterrupt ends the process
Interrupt(p) ==
    /\ p \in signalled
    /\ Live(p)
    /\ pc' = [pc EXCEPT ![p] = "interrupted"]
    /\ UNCHANGED <<pid_file, twin_pid, signalled, hatState, decoVars>>

NextGuard ==
    \/ \E p \in Procs : IsFile(p)
    \/ \E p \in Procs : ReadTwin(p)
    \/ \E p \in Procs : Kill(p)
    \/ \E p \in Procs : OpenWrite(p)
    \/ \E p \in Procs : WritePid(p)
    \/ \E p \in Procs : Interrupt(p)

SpecGuard == Init /\ [][NextGuard]_vars

\* --------------------------------------------------------- frame-saving decorator
\* (src/sw/control/debug.py)  Init is a constructed FileDecorator.  A callback
\* returns or raises; cv2.imwrite writes the file, reports a failure through
\* its return value (False), or raises.
CallbackFns == {"f", "g", "h"}
WriteOutcomes == {"written", "returned_false", "raised"}
Invoked(fn, ok) == [ev |-> "callback", fn |-> fn, outcome |-> IF ok THEN "returned" ELSE "raised"]
ImWrite(outcome) == [ev |-> "imwrite", fn |-> "", outcome |-> outcome]

\* CallbackDecorator.decorate: the callbacks in list order; raiseAt names the
\* callback that raises (0: none), which ends the loop and the call
callback_decorate(raiseAt) ==
    [i \in 1..(IF raiseAt = 0 THEN Len(callbacks) ELSE raiseAt) |->
        Invoked(callbacks[i], i # raiseAt)]

\* FileDecorator.decorate: super().decorate(args), the disable check, then
\* imwrite inside try/except Exception; the value imwrite returns is dropped
file_decorate(raiseAt, outcome) ==
    LET done == callback_decorate(raiseAt) IN
    IF raiseAt # 0 THEN [log |-> done, disable |-> disable, err |-> "CallbackError"]
    ELSE IF disable THEN [log |-> done, disable |-> disable, err |-> ""]
    ELSE [log |-> Append(done, ImWrite(outcome)),
          disable |-> (outcome = "raised"), err |-> ""]

decoRest == <<hatVars, devVars, opLog, ret, lastReply, guardVars>>

AddCallback(fn) ==
    /\ Len(callbacks) < MaxCallbacks
    /\ callbacks' = Append(callbacks, fn)
    /\ call' = [op |-> "addCallback", args |-> <<>>]
    /\ result' = "ok"
    /\ UNCHANGED <<disable, decoLog, decoRest>>

Decorate(raiseAt, outcome) ==
    LET r == file_decorate(raiseAt, outcome) IN
    /\ raiseAt <= Len(callbacks)
    /\ decoLog' = r.log
    /\ disable' = r.disable
    /\ call' = [op |-> "decorate", args |-> <<>>]
    /\ result' = IF r.err = "" THEN "ok" ELSE r.err
    /\ UNCHANGED <<callbacks, decoRest>>

NextDeco ==
    \/ \E fn \in CallbackFns : AddCallback(fn)
    \/ \E raiseAt \in 0..MaxCallbacks, outcome \in WriteOutcomes :
          Decorate(raiseAt, outcome)

SpecDeco == Init /\ [][NextDeco]_vars

\* ==================================================================
\* Properties
\* ==================================================================
Buttons == <<menu_btn, joy_btn, joy_x, joy_y>>
Frames == Xfers(opLog)
SixZeros == <<0, 0, 0, 0, 0, 0>>

\* C1: every frame handed to the bus transfer is exactly 9 bytes long,
\* whatever operation produced it.
C1_FrameIsNineBytes ==
    \A i \in 1..Len(opLog) : IsXfer(opLog[i]) => Len(opLog[i].tx) = 9

\* a one-byte packet (enable_servos) went out on the bus
C1_Witness ==
    call.op = "enable_servos" /\ result = "ok" /\ Len(Frames) = 1

\* C2: a packet of 1..8 bytes (opcode and fewer than 8 payload bytes) becomes
\* a 9-byte frame that starts with the packet's bytes (the same byte modulo
\* 256, the same value when it fits a signed byte) and ends in zeros; a
\* packet of 9 bytes is passed on unchanged.
C2_RightPad ==
    (call.op = "trancieve" /\ Len(call.args) \in 1..9) =>
        /\ Len(Frames) = 1
        /\ LET p == call.args
               f == Frames[1].tx
           IN  /\ Len(f) = 9
               /\ \A i \in 1..9 :
                     IF i <= Len(p)
                     THEN /\ f[i] % 256 = p[i] % 256
                          /\ (p[i] \in -128..127 => f[i] = p[i])
                     ELSE f[i] = 0
               /\ (Len(p) = 9 => f = p)

\* a three-byte packet was padded and sent
C2_Witness ==
    call.op = "trancieve" /\ Len(call.args) = 3 /\ Len(Frames) = 1

\* C3: trancieve with more than 9 bytes raises, performs no transfer (and no
\* truncated one) and leaves the stored button and joystick state alone.
C3_OversizeRejected ==
    [][ (call'.op = "trancieve" /\ Len(call'.args) > 9) =>
            /\ result' = "ValueError"
            /\ opLog' = <<>>
            /\ UNCHANGED <<menu_btn, joy_btn, joy_x, joy_y, lastReply>> ]_vars

\* a ten-byte packet was rejected after an earlier exchange had stored a reply
C3_Witness ==
    /\ call.op = "trancieve"
    /\ Len(call.args) = 10
    /\ result = "ValueError"
    /\ lastReply # None

\* the compensated angles of the last set_angles call, in thousandths
ExpectedX == 1000 * call.args[1] + 1000 * servo_offsets[1]
             - 500 * servo_offsets[2] - 500 * servo_offsets[3]
ExpectedY == 1000 * call.args[2] + 866 * servo_offsets[2] - 866 * servo_offsets[3]

\* v is e (thousandths) truncated toward zero
IsTruncation(v, e) ==
    IF e >= 0 THEN 1000 * v <= e /\ e < 1000 * v + 1000
              ELSE 1000 * v >= e /\ e > 1000 * v - 1000
FitsSignedByte(e) == e > -129000 /\ e < 128000

\* C4 as stated: set_angles sends one frame carrying exactly x' and y'.
C4_ExactAngles ==
    call.op = "set_angles" =>
        /\ Len(Frames) = 1
        /\ LET f == Frames[1].tx
           IN  /\ Len(f) = 9
               /\ f[1] = 4
               /\ 1000 * f[2] = ExpectedX
               /\ 1000 * f[3] = ExpectedY
               /\ SubSeq(f, 4, 9) = SixZeros

\* C4 (amended): set_angles performs one exchange whose frame is
\* [SET_PLATE_ANGLES, X, Y, 0,0,0,0,0,0] where X and Y are x' and y', the
\* offsets applied once, truncated toward zero, whenever the truncated value
\* fits a signed byte; so offsets (0,0,0) transmit (x, y) unchanged.
C4_TruncatedAngles ==
    call.op = "set_angles" =>
        /\ Len(Frames) = 1
        /\ LET f == Frames[1].tx
           IN  /\ Len(f) = 9
               /\ f[1] = 4
               /\ (FitsSignedByte(ExpectedX) => IsTruncation(f[2], ExpectedX))
               /\ (FitsSignedByte(ExpectedY) => IsTruncation(f[3], ExpectedY))
               /\ (servo_offsets = <<0, 0, 0>> => f[2] = call.args[1] /\ f[3] = call.args[2])
               /\ SubSeq(f, 4, 9) = SixZeros

\* set_angles(10, -5) with offsets (2, 0, 0) sent [4, 12, -5, 0, ...]
C4_Witness ==
    /\ call.op = "set_angles"
    /\ call.args = <<10, -5>>
    /\ servo_offsets = <<2, 0, 0>>
    /\ result = "ok"
    /\ Frames[1].tx = <<4, 12, -5, 0, 0, 0, 0, 0, 0>>

ActuatorOps == {"set_angles", "set_servos", "hover", "lower"}

\* C5: every exchange is directly preceded by the 1 ms pre-delay; a
\* successful set_angles, set_servos, hover or lower ends with the 50 ms
\* settle sleep right after its exchange; in every other operation each sleep
\* is the pre-delay of the exchange that follows it.
C5_SettleDelay ==
    /\ \A i \in 1..Len(opLog) :
          IsXfer(opLog[i]) =>
              i > 1 /\ opLog[i - 1].ev = "sleep" /\ opLog[i - 1].ms = 1
    /\ (call.op \in ActuatorOps /\ result = "ok") =>
          /\ Len(opLog) = 3
          /\ IsXfer(opLog[2]) /\ opLog[2].ok
          /\ opLog[2].tx[1] \in {4, 5}
          /\ opLog[3].ev = "sleep" /\ opLog[3].ms = 50
    /\ call.op \notin ActuatorOps =>
          \A i \in 1..Len(opLog) :
              opLog[i].ev = "sleep" => i < Len(opLog) /\ IsXfer(opLog[i + 1])

\* hover completed: pre-delay, exchange, settle
C5_Witness ==
    call.op = "hover" /\ result = "ok" /\ Len(opLog) = 3

\* number of bytes of the text's UTF-8 encoding plus the terminator (upper()
\* keeps the length of every code point used here)
TextByteLen(str) == Len(str) + Cardinality({i \in 1..Len(str) : str[i] >= 128}) + 1

\* the uppercased, null-terminated text, null-padded to a multiple of 8
PaddedText(str) ==
    LET b == utf8(str_upper(str)) \o <<0>>
    IN  b \o Zeros(8 * ((Len(b) + 7) \div 8) - Len(b))

\* C6: print_arbitrary_string of a text of total length L <= 256 on a healthy
\* bus transmits ceil(L/8) ARBITRARY_MESSAGE frames, the k-th carrying bytes
\* 8k..8k+7 of the padded text, and then one all-zero DISPLAY_BUFFER frame.
C6_TextFrames ==
    (/\ call.op = "print_arbitrary_string"
     /\ TextByteLen(call.args) <= 256
     /\ result # "OSError") =>
        LET text == PaddedText(call.args)
            n == Len(text) \div 8
        IN  /\ result = "ok"
            /\ Len(Frames) = n + 1
            /\ \A k \in 1..n :
                  /\ Len(Frames[k].tx) = 9
                  /\ Frames[k].tx[1] % 256 = 128
                  /\ \A j \in 1..8 : Frames[k].tx[j + 1] % 256 = text[8 * (k - 1) + j]
            /\ Frames[n + 1].tx = <<7, 0, 0, 0, 0, 0, 0, 0, 0>>

\* C7: a text whose byte length with the terminator exceeds 256 is rejected
\* by the length assertion before any exchange, the stored button state
\* untouched; a text of at most 256 bytes is not rejected by that assertion.
C7_TooLongRejected ==
    [][ call'.op = "print_arbitrary_string" =>
            IF TextByteLen(call'.args) > 256
            THEN /\ result' = "AssertionError"
                 /\ opLog' = <<>>
                 /\ UNCHANGED <<menu_btn, joy_btn, joy_x, joy_y, lastReply>>
            ELSE result' # "AssertionError" ]_vars

\* a 300-character text was rejected after an earlier exchange had stored a reply
C7_Witness ==
    /\ call.op = "print_arbitrary_string"
    /\ Len(call.args) = 300
    /\ result = "AssertionError"
    /\ lastReply # None

\* a reply byte read as a signed byte
Signed(b) == IF b <= 127 THEN b ELSE b - 256

\* what poll_buttons must return given the latest reply (joystick in hundredths)
Decoded(reply) ==
    IF reply = None THEN <<FALSE, FALSE, 0, 0>>
    ELSE <<reply[1] = 1, reply[1] = 2, Signed(reply[2]), Signed(reply[3])>>

\* C8: the stored state, and what poll_buttons returns, is the decoding of the
\* reply of the most recent successful exchange, or (False, False, 0, 0)
\* before any; poll_buttons performs no exchange and changes nothing.
C8_PollButtons ==
    /\ [](/\ Buttons = Decoded(lastReply)
          /\ call.op = "poll_buttons" =>
                (ret = Decoded(lastReply) /\ opLog = <<>> /\ result = "ok"))
    /\ [][ call'.op = "poll_buttons" =>
              UNCHANGED <<hatVars, devVars, lastReply>> ]_vars

\* poll_buttons after a reply with raw joystick byte 200: x is -0.56
C8_Witness ==
    /\ call.op = "poll_buttons"
    /\ lastReply # None
    /\ lastReply[2] = 200
    /\ ret = <<TRUE, FALSE, -56, 0>>

LineEvents == SelectSeq(hw, IsLineEvent)
PowerSequence ==
    << [ev |-> "gpio.output", pin |-> "HAT_EN", level |-> "LOW", ms |-> 0, ok |-> TRUE],
       [ev |-> "sleep", pin |-> "", level |-> "", ms |-> 20, ok |-> TRUE],
       [ev |-> "gpio.output", pin |-> "HAT_EN", level |-> "HIGH", ms |-> 0, ok |-> TRUE],
       [ev |-> "gpio.output", pin |-> "HAT_RESET", level |-> "LOW", ms |-> 0, ok |-> TRUE],
       [ev |-> "gpio.output", pin |-> "BOOT_EN", level |-> "LOW", ms |-> 0, ok |-> TRUE],
       [ev |-> "sleep", pin |-> "", level |-> "", ms |-> 250, ok |-> TRUE] >>

\* C9: a constructed Hat has run the power sequence once, in order, ending
\* with the long wait, as the last part of construction; exchanges happen
\* only on a constructed Hat; after construction the only calls on the lines
\* and the bus handle are those of close.
C9_PowerSequence ==
    /\ phase \in {"ready", "closed"} =>
          /\ LineEvents = PowerSequence
          /\ Len(hw) >= 12
          /\ SubSeq(hw, 7, 12) = PowerSequence
          /\ \A i \in 13..Len(hw) : hw[i].ev \in {"spi.close", "gpio.cleanup"}
    /\ Len(Frames) > 0 => phase \in {"ready", "closed"}

\* an exchange on a Hat whose power sequence has completed
C9_Witness ==
    /\ phase = "ready"
    /\ Len(Frames) > 0
    /\ LineEvents = PowerSequence

SetupCalls ==
    {"spi.open", "spi.max_speed_hz", "gpio.setwarnings", "gpio.setmode",
     "gpio.setup_out", "gpio.setup_in"}
FailedSetup == {i \in 1..Len(hw) : ~hw[i].ok /\ hw[i].ev \in SetupCalls}

\* C10: when a call that opens the bus or configures the lines fails,
\* construction ends there with an IOError: no call is made after the failing
\* one, no setup call is made twice, the power sequence is not run and no
\* operation, hence no exchange, follows on that object.
C10_InitFailure ==
    /\ \A name \in SetupCalls :
          Cardinality({i \in 1..Len(hw) : hw[i].ev = name}) <= 1
    /\ FailedSetup # {} =>
          /\ phase = "init_failed"
          /\ result = "IOError"
          /\ call.op = "__init__"
          /\ FailedSetup = {Len(hw)}
          /\ LineEvents = <<>>
          /\ opLog = <<>>
    /\ phase = "init_failed" => FailedSetup # {}

\* construction failed at the configuration of the output lines
C10_Witness ==
    /\ phase = "init_failed"
    /\ hw[Len(hw)].ev = "gpio.setup_out"
    /\ ~hw[Len(hw)].ok

CallsOf(name, ok) == {i \in 1..Len(hw) : hw[i].ev = name /\ hw[i].ok = ok}

\* C11: on every exit from a with-block around a Hat (after a normal return
\* or after an operation raised) the bus handle is closed and the lines are
\* released, exactly once each.
C11_ScopedRelease ==
    scope = "exited" =>
        /\ spi = "closed"
        /\ lines = "released"
        /\ Cardinality(CallsOf("spi.close", TRUE)) = 1
        /\ Cardinality(CallsOf("gpio.cleanup", TRUE)) = 1

\* C12: a failed line configuration closes the bus handle before the error
\* leaves the constructor; a failed close of the bus handle still releases
\* the lines; the bus is never open, and the lines never held, without a
\* live Hat.
C12_ReleaseOnAbort ==
    /\ phase = "init_failed" => spi # "open" /\ lines # "held"
    /\ CallsOf("spi.close", FALSE) # {} => lines = "released"
    /\ scope = "exited" => spi # "open" /\ lines # "held"

FailedAt(log) == {i \in 1..Len(log) : log[i].ev = "xfer" /\ ~log[i].ok}

\* C13: a failed transfer is the last thing its operation does: the frame is
\* not sent again, no settle delay and no further frame follow, the operation
\* raises the bus error, and the stored button/joystick state is the one
\* before the failed transfer (that of the operation's last completed
\* transfer, else the state before the operation).
C13_FailurePropagates ==
    /\ [](FailedAt(opLog) # {} =>
            /\ FailedAt(opLog) = {Len(opLog)}
            /\ result = "OSError"
            /\ ret = None)
    /\ [][FailedAt(opLog') # {} =>
            IF Len(SelectSeq(opLog', IsDone)) = 0
            THEN Buttons' = Buttons /\ lastReply' = lastReply
            ELSE Buttons' = Decoded(lastReply')]_vars

\* an actuator command whose transfer failed, on a Hat that had decoded a
\* reply before
C13_Witness ==
    /\ call.op = "set_angles"
    /\ Len(opLog) = 2
    /\ opLog[1] = Sleep(PRE_DELAY_MS)
    /\ FailedAt(opLog) = {2}
    /\ result = "OSError"
    /\ lastReply # None
    /\ joy_x = -56

\* the values an operation other than set_angles puts in front of the padding,
\* from its arguments alone (raw positions as two's-complement bytes)
RawFrame(c) ==
    CASE c.op = "set_servos" ->
            <<5, Signed(c.args[1] % 256), Signed(c.args[2] % 256), Signed(c.args[3] % 256)>>
      [] c.op = "hover" -> <<5, Signed(150), Signed(150), Signed(150)>>
      [] c.op = "lower" -> <<5, Signed(155), Signed(155), Signed(155)>>
      [] c.op = "enable_servos" -> <<1>>
      [] c.op = "disable_servos" -> <<2>>
      [] c.op = "set_icon_text" -> <<6, c.args[1], c.args[2]>>
      [] OTHER -> <<>>
RawOps == {"set_servos", "hover", "lower", "enable_servos", "disable_servos",
           "set_icon_text"}
InSignedByte(v) == -128 <= v /\ v <= 127

\* C14: the frame of set_servos(a, b, c) is [SET_SERVOS, a, b, c, 0,0,0,0,0]
\* whatever the offsets are; of all operations only set_angles sends a frame
\* that depends on the offsets.
C14_OffsetsNotOnRawPath ==
    /\ call.op \in RawOps /\ Len(Frames) > 0 =>
          /\ Len(Frames) = 1
          /\ Frames[1].tx =
                [i \in 1..9 |-> IF i <= Len(RawFrame(call)) THEN RawFrame(call)[i] ELSE 0]
    /\ call.op = "set_servos" /\ Len(Frames) > 0
          /\ (\A i \in 1..3 : InSignedByte(call.args[i])) =>
                SubSeq(Frames[1].tx, 2, 4) = call.args

\* set_servos on a Hat whose three offsets are all non-zero
C14_Witness ==
    /\ call.op = "set_servos"
    /\ servo_offsets = <<-3, 2, -3>>
    /\ call.args = <<-1, 127, -128>>
    /\ Len(Frames) = 1
    /\ Frames[1].tx = <<5, -1, 127, -128, 0, 0, 0, 0, 0>>

\* C15: set_servo_offsets(a, b, c) stores (a, b, c) and does nothing else:
\* no exchange, no delay, the stored button/joystick state, the bus handle
\* and the lines as before; a set_angles called next compensates with
\* (a, b, c).
C15_PureOffsets ==
    [][/\ call'.op = "set_servo_offsets" =>
            /\ servo_offsets' = call'.args
            /\ opLog' = <<>>
            /\ result' = "ok"
            /\ Buttons' = Buttons
            /\ lastReply' = lastReply
            /\ UNCHANGED <<phase, spi, lines, hw>>
       /\ call.op = "set_servo_offsets" /\ call'.op = "set_angles" =>
            LET so == call.args
                x == 1000 * call'.args[1] + 1000 * so[1] - 500 * so[2] - 500 * so[3]
                y == 1000 * call'.args[2] + 866 * so[2] - 866 * so[3]
                f == Xfers(opLog')[1].tx
            IN  /\ (FitsSignedByte(x) => IsTruncation(f[2], x))
                /\ (FitsSignedByte(y) => IsTruncation(f[3], y))]_vars

\* offsets replaced on a Hat that had decoded a reply and held other offsets
C15_Witness ==
    /\ call.op = "set_servo_offsets"
    /\ call.args = <<-3, 2, -3>>
    /\ servo_offsets = <<-3, 2, -3>>
    /\ opLog = <<>>
    /\ lastReply # None
    /\ joy_x = -56
    /\ spi = "open"

\* C16: _uint8_to_int8 maps a byte b in 0..127 to b and a byte in 128..255
\* to b - 256: the decoded joystick values lie in [-128, 127], and the byte is
\* recovered from the value (value modulo 256), so no two bytes decode alike.
C16_ToSigned ==
    lastReply # None =>
        \A d \in {<<lastReply[2], joy_x>>, <<lastReply[3], joy_y>>} :
            /\ d[1] \in 0..127 => d[2] = d[1]
            /\ d[1] \in 128..255 => d[2] = d[1] - 256
            /\ -128 <= d[2] /\ d[2] <= 127
            /\ d[2] % 256 = d[1]

\* both sides of the sign boundary decoded from one reply
C16_Witness ==
    /\ lastReply # None
    /\ lastReply[2] = 128 /\ joy_x = -128
    /\ lastReply[3] = 127 /\ joy_y = 127

\* C17: menu-pressed and joystick-pressed are never both true, whatever the
\* peripheral replies.
C17_ButtonsExclusive == ~(menu_btn /\ joy_btn)

\* polled after a reply whose code has both low bits set: neither button
C17_Witness ==
    /\ lastReply # None
    /\ lastReply[1] = 3
    /\ ~menu_btn
    /\ ~joy_btn
    /\ call.op = "poll_buttons"

\* C18: the joystick values stored and returned by poll_buttons lie between
\* -1 and +1 (-100 and 100 hundredths), whatever bytes the reply carries.
C18_JoystickNormalized ==
    /\ -100 <= joy_x /\ joy_x <= 100
    /\ -100 <= joy_y /\ joy_y <= 100
    /\ call.op = "poll_buttons" =>
          /\ -100 <= ret[3] /\ ret[3] <= 100
          /\ -100 <= ret[4] /\ ret[4] <= 100

\* C19: the opcodes and the raw positions of hover and lower lie in
\* [-128, 127], so they are in the frame as given: a frame that starts with
\* ARBITRARY_MESSAGE carries 128, the frames of hover and lower 150 and 155.
C19_FacadeValuesFit ==
    /\ call.op = "trancieve" /\ Len(Frames) > 0 /\ Len(call.args) > 0 =>
          call.args[1] = ARBITRARY_MESSAGE /\ Frames[1].tx[1] = ARBITRARY_MESSAGE
    /\ call.op = "hover" /\ Len(Frames) > 0 =>
          Frames[1].tx = <<SET_SERVOS, HOVER_POS, HOVER_POS, HOVER_POS, 0, 0, 0, 0, 0>>
    /\ call.op = "lower" /\ Len(Frames) > 0 =>
          Frames[1].tx = <<SET_SERVOS, LOWER_POS, LOWER_POS, LOWER_POS, 0, 0, 0, 0, 0>>

\* C20: the quick-switch controller built for a port (or a pair of ports)
\* answers every next_action call with an action: the first endpoint's when
\* its probe answers 200, else the second's when that answers 200, else the
\* PID controller's; for a single port the second endpoint is port + 1.
C20_QuickSwitchFailover ==
    call.op = "brain_controller_quick_switch" /\ Len(call.args) <= 2 =>
        /\ result = "ok"
        /\ Len(call.args) = 1 => ret = <<call.args[1], call.args[1] + 1>>
        /\ Len(call.args) = 2 => ret = call.args
        /\ \A s1, s2 \in {200, 400, 503}, ball \in BOOLEAN,
              o \in {"ok", "not_ok", "ConnectionError", "error"} :
              LET a == quick_switch_next_action(ret, s1, s2, ball, o)
              IN  /\ a.err = ""
                  /\ a.by = IF s1 = 200 THEN ret[1] ELSE IF s2 = 200 THEN ret[2] ELSE 0

Finished(p) == pc[p] \in {"done", "interrupted", "ValueError"}

\* C21: when all the calls of kill_doppelganger on one pid file have
\* finished, the file holds the pid of a process that was not sent SIGINT,
\* and every other process was sent SIGINT.
C21_SingleInstance ==
    (\A p \in Procs : Finished(p)) =>
        /\ Len(pid_file.text) = 1
        /\ pid_file.text[1] \notin signalled
        /\ \A p \in Procs : p # pid_file.text[1] => p \in signalled

IsCallback(e) == e.ev = "callback"
IsImWrite(e) == e.ev = "imwrite"
Writes(log) == SelectSeq(log, IsImWrite)

\* C22: disable starts false, becomes true on the first failed frame write
\* and is never reset; once it is true no decorate call attempts a write;
\* every decorate call invokes all registered callbacks, once each, in
\* registration order, before the write decision.
C22_DisableLatch ==
    /\ [](call.op = "none" => ~disable)
    /\ [](call.op = "decorate" =>
            /\ LET cbs == SelectSeq(decoLog, IsCallback)
               IN  /\ [i \in 1..Len(cbs) |-> cbs[i].fn] = callbacks
                   /\ SubSeq(decoLog, 1, Len(cbs)) = cbs
            /\ Len(Writes(decoLog)) <= 1
            /\ (Len(Writes(decoLog)) = 1 /\ Writes(decoLog)[1].outcome # "written"
                   => disable))
    /\ [][/\ disable => disable'
          /\ disable /\ call'.op = "decorate" => Len(Writes(decoLog')) = 0
          /\ ~disable /\ call'.op = "decorate" /\ result' = "ok"
                => Len(Writes(decoLog')) = 1]_vars

====
